---------------------------- MODULE Spec2Model ----------------------------
(***************************************************************************)
(* PitStopAnalyzer (src/analyzer.py): one run of process() over a video.   *)
(*                                                                         *)
(* The external primitives are inputs: cap.read() (a frame or the end of   *)
(* the video), find_car(frame) (a bounding box or None) and the person     *)
(* detector model.predict (a list of boxes).  Everything process() does    *)
(* with them is modelled: the stability counter, the lock, the zones, the  *)
(* per-zone statistics, the progress callback and the final report.        *)
(*                                                                         *)
(* Representation.  None and the empty dict {} are the empty tuple <<>>.   *)
(* A time frame_count / fps is kept as its numerator frame_count (fps is   *)
(* fixed for a run); a value rounded by round(x, 2) is kept in hundredths. *)
(***************************************************************************)
EXTENDS Integers, Sequences, FiniteSets, TLC

\* ------------------------------------------------------------------ bounds

\* The longest video explored, in frames.
MaxFrames == 23

\* Coordinates explored for check_overlap taken alone: 0..MaxCoord.
MaxCoord == 2

\* ------------------------------------------------------- program constants

\* "if stable_frames > 15"
LockFrames == 15

\* "if dist < 5"
MoveThreshold == 5

\* "if duration > 1.0"
MinDuration == 1

\* "frame_count % 10 == 0"
ProgressEvery == 10

\* ------------------------------------------------------------------ inputs

None == <<>>

\* cap.get(CAP_PROP_FRAME_WIDTH), cap.get(CAP_PROP_FRAME_HEIGHT)
width == 120
height == 64

\* int(cap.get(CAP_PROP_FPS)) of the videos explored; 0 is what a container
\* without a frame rate reports.
FpsValues == {0, 3, 60}

\* Bounding boxes (x, y, w, h) that find_car may report.
\*   CarA -> CarB : corner moves by (3, 3)           |dx|+|dy| = 6, centre 4.24
\*   CarA -> CarC : corner moves by (1, 0), w grows  |dx|+|dy| = 1, centre 11
\*   CarB -> CarC : corner moves by (2, 3)           |dx|+|dy| = 5
CarA == <<40, 40, 40, 20>>
CarB == <<43, 43, 40, 20>>
CarC == <<41, 40, 60, 20>>
CandidateBoxes == {CarA, CarB, CarC}

\* find_car: None, or the bounding rectangle of a contour whose area is at
\* least 5% of the frame (the rectangle's area is at least the contour's).
find_car == {None} \cup {b \in CandidateBoxes : b[3] * b[4] * 20 >= width * height}

\* Person boxes (x1, y1, x2, y2) after int(), all inside the frame.
PersonFuel == <<62, 58, 66, 64>>
PersonFront == <<72, 27, 73, 29>>
PersonWide == <<50, 20, 80, 64>>

\* The lists of boxes model.predict may return for one frame.
Detections == {<<>>, <<PersonFuel>>, <<PersonFront>>, <<PersonFuel, PersonWide>>}

\* ------------------------------------------------------------------- state

VARIABLES
    pc,             \* "loop": in the while loop; "done": returned; "error": raised
    exc,            \* the exception raised ("none" while there is none)
    fps,            \* self.fps
    total_frames,   \* total_frames
    has_callback,   \* progress_callback is not None
    frame_count,    \* frame_count
    stable_frames,  \* stable_frames
    last_car_pos,   \* last_car_pos
    car_box,        \* car_box of the latest detection-phase frame
    car_detected,   \* self.car_detected
    zones,          \* self.zones
    car_bbox,       \* self.car_bbox
    zone_stats,     \* self.zone_stats
    results,        \* the boxes of the latest analysis-phase frame
    report,         \* final_log
    gen_calls,      \* history: number of calls of generate_zones
    prev_car_pos,   \* history: last_car_pos when the latest iteration began
    streak,         \* history: latest detections in a row that moved less than the threshold
    samples,        \* history: per analysed frame, its index and the zones sampled busy
    ov_person,      \* check_overlap taken alone: person_box
    ov_zone,        \* check_overlap taken alone: zone_box
    ov_result       \* check_overlap taken alone: the value returned

procVars == <<pc, exc, fps, total_frames, has_callback, frame_count, stable_frames,
              last_car_pos, car_box, car_detected, zones, car_bbox, zone_stats,
              results, report, gen_calls, prev_car_pos, streak, samples>>

ovVars == <<ov_person, ov_zone, ov_result>>

vars == <<pc, exc, fps, total_frames, has_callback, frame_count, stable_frames,
          last_car_pos, car_box, car_detected, zones, car_bbox, zone_stats,
          results, report, gen_calls, prev_car_pos, streak,
          samples, ov_person, ov_zone, ov_result>>

\* ----------------------------------------------------------------- helpers

Abs(n) == IF n < 0 THEN -n ELSE n

\* int(c * 0.35): floor(35 c / 100) for 0 <= c < 180 (at c = 180 the float
\* product is 62.99999999999999 and int() gives 62).
Int035(c) == (c * 35) \div 100

\* int(c * 0.5)
Int05(c) == c \div 2

\* int(c * 0.2)
Int02(c) == c \div 5

\* round(n / d, 2) in hundredths, d > 0.  The quotient is rounded to the
\* nearest hundredth; an exact tie (only when 8 divides d) goes to the even
\* hundredth, as Python rounds an exactly representable tie.
Round2(n, d) ==
    LET q == (100 * n) \div d
        r == (100 * n) % d
    IN  IF 2 * r < d THEN q
        ELSE IF 2 * r > d THEN q + 1
        ELSE IF q % 2 = 0 THEN q ELSE q + 1


\* ---------------------------------------------------------- generate_zones

\* The keys of the zones dict, in insertion order (the order .items() yields).
ZoneOrder == <<"Outside_Front", "Inside_Front", "Outside_Rear", "Inside_Rear",
               "Fueling", "Driver_Change">>

ZoneNames == {ZoneOrder[i] : i \in 1..Len(ZoneOrder)}

\* The dict generate_zones returns: name -> [x, y, w, h].
generate_zones(box) ==
    LET cx == box[1]
        cy == box[2]
        cw == box[3]
        ch == box[4]
        center_x == cx + cw \div 2
        zw == Int035(cw)
        zh == Int05(ch)
        pad_y == Int02(ch)
    IN  [z \in ZoneNames |->
            CASE z = "Outside_Front" -> <<center_x, cy - zh - pad_y, zw, zh>>
              [] z = "Inside_Front"  -> <<center_x, cy + ch + pad_y, zw, zh>>
              [] z = "Outside_Rear"  -> <<center_x - zw, cy - zh - pad_y, zw, zh>>
              [] z = "Inside_Rear"   -> <<center_x - zw, cy + ch + pad_y, zw, zh>>
              [] z = "Fueling"       -> <<center_x - zw \div 2, cy + ch, zw, zh>>
              [] z = "Driver_Change" -> <<center_x - zw \div 2, cy - zh, zw, zh>>]

\* "self.zone_stats = {k: {'frames': 0, 'active': False, 'starts': []} ...}"
InitialStats(zs) == [z \in DOMAIN zs |-> [frames |-> 0, active |-> FALSE, starts |-> <<>>]]

\* Mutant of EmptyStats: the statistics exist from construction on.
EmptyStats_Prepopulated ==
    [z \in ZoneNames |-> [frames |-> 0, active |-> FALSE, starts |-> <<>>]]

\* "self.zone_stats = {}" in __init__
EmptyStats == <<>>

\* ----------------------------------------------------------- check_overlap

\* Mutant of check_overlap: boxes that only touch an edge count as overlapping.
check_overlap_Touching(person_box, zone_box) ==
    /\ person_box[1] <= zone_box[1] + zone_box[3]
    /\ person_box[3] >= zone_box[1]
    /\ person_box[2] <= zone_box[2] + zone_box[4]
    /\ person_box[4] >= zone_box[2]

check_overlap(person_box, zone_box) ==
    LET px1 == person_box[1]
        py1 == person_box[2]
        px2 == person_box[3]
        py2 == person_box[4]
        zx == zone_box[1]
        zy == zone_box[2]
        zx2 == zone_box[1] + zone_box[3]
        zy2 == zone_box[2] + zone_box[4]
    IN  px1 < zx2 /\ px2 > zx /\ py1 < zy2 /\ py2 > zy

\* ------------------------------------------------ process: detection phase

\* Mutant of Dist: the larger of the two differences instead of their sum.
Dist_Chebyshev(box, last) ==
    IF Abs(box[1] - last[1]) > Abs(box[2] - last[2])
    THEN Abs(box[1] - last[1]) ELSE Abs(box[2] - last[2])

\* "dist = abs(x - last_car_pos[0]) + abs(y - last_car_pos[1])"
Dist(box, last) == Abs(box[1] - last[1]) + Abs(box[2] - last[2])

\* Mutant of StableAfter: a frame without a detection resets the counter.
StableAfter_ResetOnMiss(box, last, stable) ==
    IF box = None THEN 0
    ELSE IF last = None THEN stable
    ELSE IF Dist(box, last) < MoveThreshold THEN stable + 1
    ELSE 0

\* stable_frames after one frame of the detection phase: untouched when
\* find_car returned None or there is no earlier position.
StableAfter(box, last, stable) ==
    IF box = None THEN stable
    ELSE IF last = None THEN stable
    ELSE IF Dist(box, last) < MoveThreshold THEN stable + 1
    ELSE 0

\* last_car_pos after one frame of the detection phase.
LastPosAfter(box, last) == IF box = None THEN last ELSE box

\* Mutant of ShouldLock: the lock one stable frame late.
ShouldLock_Late(box, stable) == box # None /\ stable > LockFrames + 1

\* Mutant of ShouldLock: the lock one stable frame early.
ShouldLock_Early(box, stable) == box # None /\ stable >= LockFrames

\* "if stable_frames > 15", inside "if car_box"
ShouldLock(box, stable) == box # None /\ stable > LockFrames

\* Mutant of InDetectionPhase: the detection phase does not end at the lock.
InDetectionPhase_Always == TRUE

\* "if not self.car_detected"
InDetectionPhase == ~car_detected

\* ------------------------------------------------- process: analysis phase

\* current_active_zones: for each box in turn, the zones it overlaps, in the
\* order of the dict; a zone is listed once per box that overlaps it.
RECURSIVE ZonesOf(_, _, _)
ZonesOf(box, zs, i) ==
    IF i > Len(ZoneOrder) THEN <<>>
    ELSE (IF check_overlap(box, zs[ZoneOrder[i]]) THEN <<ZoneOrder[i]>> ELSE <<>>)
         \o ZonesOf(box, zs, i + 1)

\* Mutant of current_active_zones: only the first box is checked.
current_active_zones_FirstBox(boxes, zs) ==
    IF boxes = <<>> THEN <<>> ELSE ZonesOf(boxes[1], zs, 1)

RECURSIVE current_active_zones(_, _)
current_active_zones(boxes, zs) ==
    IF boxes = <<>> THEN <<>>
    ELSE ZonesOf(boxes[1], zs, 1) \o current_active_zones(Tail(boxes), zs)

\* "z_name in current_active_zones"
IsActive(z, active_list) == \E i \in 1..Len(active_list) : active_list[i] = z

\* Mutant of UpdateZone: a start time is recorded on every busy frame.
UpdateZone_StartEveryBusy(st, is_active, fc) ==
    IF is_active
    THEN [frames |-> st.frames + 1,
          active |-> TRUE,
          starts |-> Append(st.starts, fc)]
    ELSE [st EXCEPT !.active = FALSE]

\* One zone's statistics after one frame (fps # 0).
UpdateZone(st, is_active, fc) ==
    IF is_active
    THEN [frames |-> st.frames + 1,
          active |-> TRUE,
          starts |-> IF ~st.active THEN Append(st.starts, fc) ELSE st.starts]
    ELSE [st EXCEPT !.active = FALSE]

\* The update loop over the zones, in the order of the dict.  With fps = 0 the
\* division "frame_count / self.fps" raises at the first zone that turns
\* active, after its frames were incremented; the zones before it are updated.
RECURSIVE UpdateLoop(_, _, _, _)
UpdateLoop(stats, i, active_list, fc) ==
    IF i > Len(ZoneOrder) THEN [stats |-> stats, raised |-> FALSE]
    ELSE LET z == ZoneOrder[i]
             is_active == IsActive(z, active_list)
         IN  IF is_active /\ ~stats[z].active /\ fps = 0
             THEN [stats |-> [stats EXCEPT ![z].frames = @ + 1], raised |-> TRUE]
             ELSE UpdateLoop([stats EXCEPT ![z] = UpdateZone(@, is_active, fc)],
                             i + 1, active_list, fc)

\* The zones sampled busy on a frame.
BusySet(boxes, zs) ==
    LET active_list == current_active_zones(boxes, zs)
    IN  {active_list[i] : i \in 1..Len(active_list)}

\* ------------------------------------------------------ process: the report

\* Mutant of KeepRow: a duration equal to the minimum is kept.
KeepRow_AtLeast(frames) == frames >= MinDuration * fps

\* "if duration > 1.0" with duration = frames / fps, fps > 0
KeepRow(frames) == frames > MinDuration * fps

\* One row of the report, under the keys the code gives it.
Row(z, st) ==
    [k \in {"Task", "Total Duration", "First Activity"} |->
        CASE k = "Task" -> z
          [] k = "Total Duration" -> Round2(st.frames, fps)
          [] k = "First Activity" ->
                IF st.starts # <<>> THEN Round2(st.starts[1], fps) ELSE 0]

RECURSIVE final_log(_, _)
final_log(stats, i) ==
    IF i > Len(ZoneOrder) THEN <<>>
    ELSE (IF ZoneOrder[i] \in DOMAIN stats /\ KeepRow(stats[ZoneOrder[i]].frames)
          THEN <<Row(ZoneOrder[i], stats[ZoneOrder[i]])>> ELSE <<>>)
         \o final_log(stats, i + 1)

\* "progress_callback(frame_count / total_frames)" raises when total_frames = 0
ProgressRaises(fc) == has_callback /\ fc % ProgressEvery = 0 /\ total_frames = 0

\* -------------------------------------------------------------------- Init

\* The state when process() enters its loop, after __init__.  total_frames is
\* read by the progress callback's argument alone, so a run without a callback
\* is explored with one value of it.
InitWith(f, n, cb) ==
    /\ pc = "loop"
    /\ exc = "none"
    /\ fps = f
    /\ total_frames = n
    /\ has_callback = cb
    /\ frame_count = 0
    /\ stable_frames = 0
    /\ last_car_pos = None
    /\ car_box = None
    /\ car_detected = FALSE
    /\ zones = <<>>
    /\ car_bbox = None
    /\ zone_stats = EmptyStats
    /\ results = <<>>
    /\ report = <<>>
    /\ gen_calls = 0
    /\ prev_car_pos = None
    /\ streak = 0
    /\ samples = <<>>
    /\ ov_person = None
    /\ ov_zone = None
    /\ ov_result = FALSE

Init ==
    \E f \in FpsValues, n \in {0, MaxFrames}, cb \in BOOLEAN :
        /\ ~cb => n = MaxFrames
        /\ InitWith(f, n, cb)

\* ----------------------------------------------------------------- actions

\* The end of one iteration: "frame_count += 1" and the progress callback.
FrameEnd ==
    /\ frame_count' = frame_count + 1
    /\ IF ProgressRaises(frame_count + 1)
       THEN pc' = "error" /\ exc' = "ZeroDivisionError:206"
       ELSE UNCHANGED <<pc, exc>>

\* One iteration of the loop before the lock, find_car returning box.
DetectFrame(box) ==
    /\ pc = "loop"
    /\ InDetectionPhase
    /\  LET stable == StableAfter(box, last_car_pos, stable_frames)
            last == LastPosAfter(box, last_car_pos)
        IN  /\ car_box' = box
            /\ stable_frames' = stable
            /\ last_car_pos' = last
            /\ prev_car_pos' = last_car_pos
            /\ streak' = IF box = None \/ last_car_pos = None THEN streak
                         ELSE IF Abs(box[1] - last_car_pos[1]) + Abs(box[2] - last_car_pos[2]) < 5
                              THEN streak + 1 ELSE 0
            /\ IF ShouldLock(box, stable)
               THEN /\ zones' = generate_zones(last)
                    /\ zone_stats' = InitialStats(generate_zones(last))
                    /\ gen_calls' = gen_calls + 1
                    /\ car_detected' = TRUE
                    /\ car_bbox' = last
               ELSE UNCHANGED <<zones, zone_stats, gen_calls, car_detected, car_bbox>>
    /\ FrameEnd
    /\ UNCHANGED <<fps, total_frames, has_callback, results, report, samples, ovVars>>

DetectionPhase ==
    /\ frame_count < MaxFrames
    /\ \E box \in find_car : DetectFrame(box)

\* One iteration of the loop after the lock, the detector returning boxes.
AnalyzeFrame(boxes) ==
    /\ pc = "loop"
    /\ ~InDetectionPhase
    /\  LET upd == UpdateLoop(zone_stats, 1, current_active_zones(boxes, zones), frame_count)
        IN  /\ results' = boxes
            /\ samples' = Append(samples, [t |-> frame_count, busy |-> BusySet(boxes, zones)])
            /\ zone_stats' = upd.stats
            /\ prev_car_pos' = last_car_pos
            /\ IF upd.raised
               THEN pc' = "error" /\ exc' = "ZeroDivisionError:193" /\ UNCHANGED frame_count
               ELSE FrameEnd
    /\ UNCHANGED <<fps, total_frames, has_callback, stable_frames, last_car_pos, car_box,
                   car_detected, zones, car_bbox, report, gen_calls, streak, ovVars>>

AnalysisPhase ==
    /\ frame_count < MaxFrames
    /\ \E boxes \in Detections : AnalyzeFrame(boxes)

\* cap.read() returns no frame: the loop ends and the report is compiled.
\* "duration = stats['frames'] / self.fps" raises at the first zone when fps = 0.
EndOfVideo ==
    /\ pc = "loop"
    /\ IF DOMAIN zone_stats # {} /\ fps = 0
       THEN pc' = "error" /\ exc' = "ZeroDivisionError:214" /\ UNCHANGED report
       ELSE pc' = "done" /\ report' = final_log(zone_stats, 1) /\ UNCHANGED exc
    /\ UNCHANGED <<fps, total_frames, has_callback, frame_count, stable_frames, last_car_pos,
                   car_box, car_detected, zones, car_bbox, zone_stats, results,
                   gen_calls, prev_car_pos, streak, samples, ovVars>>

Next == DetectionPhase \/ AnalysisPhase \/ EndOfVideo

Spec == Init /\ [][Next]_vars

\* ------------------------------------------------ check_overlap taken alone

\* Person boxes (x1, y1, x2, y2) with x1 <= x2 and y1 <= y2.
OvPersons == {b \in (0..MaxCoord) \X (0..MaxCoord) \X (0..MaxCoord) \X (0..MaxCoord) :
                b[1] <= b[3] /\ b[2] <= b[4]}

\* Zone boxes (x, y, w, h), zero widths and heights included.
OvZones == (0..MaxCoord) \X (0..MaxCoord) \X (0..MaxCoord) \X (0..MaxCoord)

InitOverlap == InitWith(3, MaxFrames, FALSE)

CallOverlap ==
    /\ \E p \in OvPersons, z \in OvZones :
        /\ ov_person' = p
        /\ ov_zone' = z
        /\ ov_result' = check_overlap(p, z)
    /\ UNCHANGED procVars

SpecOverlap == InitOverlap /\ [][CallOverlap]_vars

\* ------------------------------------------------- process: one given video

\* A video of 300 frames at 30 fps with a progress callback: find_car returns
\* the same box on every frame, and one person stands in the Fueling zone on
\* the 60 frames that start at t = 3 s.
Scenario == [fps |-> 30, frames |-> 300, busy_from |-> 90, busy_len |-> 60]

ScenarioBoxes(fc) ==
    IF Scenario.busy_from <= fc /\ fc < Scenario.busy_from + Scenario.busy_len
    THEN <<PersonFuel>> ELSE <<>>

InitScenario == InitWith(Scenario.fps, Scenario.frames, TRUE)

ScenarioDetect == frame_count < Scenario.frames /\ DetectFrame(CarA)

ScenarioAnalyze == frame_count < Scenario.frames /\ AnalyzeFrame(ScenarioBoxes(frame_count))

ScenarioEnd == frame_count = Scenario.frames /\ EndOfVideo

NextScenario == ScenarioDetect \/ ScenarioAnalyze \/ ScenarioEnd

SpecScenario == InitScenario /\ [][NextScenario]_vars

\* ------------------------------------------------------------------ claims

\* A step that processes one frame before the lock.
DetectionStep == pc = "loop" /\ ~car_detected /\ frame_count' = frame_count + 1

\* A step that samples the zones on one frame after the lock.
AnalysisStep == pc = "loop" /\ car_detected /\ Len(samples') = Len(samples) + 1

\* The latest element of a sequence.
Last(s) == s[Len(s)]

\* The zone was sampled busy on the i-th analysed frame.
Busy(z, i) == z \in samples[i].busy

\* The number of analysed frames on which the zone was sampled busy.
BusyFrames(z) == Cardinality({i \in 1..Len(samples) : Busy(z, i)})

HasRow(z) == \E i \in 1..Len(report) : report[i].Task = z

\* C1: generate_zones is called at most once in a run, and once car_detected
\* is True it stays True and zones, car_bbox and the set of zone names never
\* change again, whatever the later frames hold.
C1_LockIsOneWay ==
    /\ [](gen_calls <= 1)
    /\ [][car_detected =>
            /\ car_detected'
            /\ zones' = zones
            /\ car_bbox' = car_bbox
            /\ DOMAIN zones' = DOMAIN zones]_vars

\* The vehicle is locked and three later frames, with detections, were analysed.
C1_Witness ==
    /\ car_detected
    /\ gen_calls = 1
    /\ Len(samples) >= 3
    /\ results # <<>>

\* C2: car_detected is True only if the stable counter exceeded 15, that is,
\* only after at least 16 detections in a row that each moved less than the
\* threshold from the detection before, with no disturbed detection between.
C2_NoPrematureLock ==
    car_detected => (stable_frames > 15 /\ streak >= 16)

\* The lock came later than the earliest frame it can come at: the counter
\* was held back by a disturbed or missed detection and the lock waited.
C2_Witness ==
    /\ car_detected
    /\ samples = <<>>
    /\ frame_count > 17

\* C3: a zone that is Active and gets one non-busy frame stays Active, and
\* the busy frame after that one records no second start time.  One frame is
\* within every patience window of 0.3 s or more when 3 * fps >= 10.
C3_NoFlicker ==
    [][(AnalysisStep /\ 3 * fps >= 10) =>
        \A z \in DOMAIN zone_stats :
            /\ (zone_stats[z].active /\ z \notin Last(samples').busy)
                    => zone_stats'[z].active
            /\ (/\ Len(samples) >= 2
                /\ Busy(z, Len(samples) - 1)
                /\ ~Busy(z, Len(samples))
                /\ z \in Last(samples').busy)
                    => zone_stats'[z].starts = zone_stats[z].starts]_vars

\* C4: when process returns, a zone has a row in the report if and only if
\* its busy frames divided by fps exceed the minimum duration of 1.0 s.
C4_MinDurationFilter ==
    pc = "done" =>
        \A z \in ZoneNames :
            HasRow(z) <=> (z \in DOMAIN zone_stats /\ BusyFrames(z) > fps)

\* A finished run with a reported zone and with a zone that was busy for no
\* longer than the minimum and is not reported.
C4_Witness ==
    /\ pc = "done"
    /\ \E z \in ZoneNames : HasRow(z)
    /\ \E z \in ZoneNames : BusyFrames(z) > 0 /\ BusyFrames(z) <= fps /\ ~HasRow(z)

\* Every maximal run of busy frames of the zone is shorter than the minimum
\* duration: fewer than fps frames.
SpansShort(z) ==
    \A i, j \in 1..Len(samples) :
        (i <= j /\ \A k \in i..j : Busy(z, k)) => (j - i + 1 < fps)

\* Every run of idle frames between two busy frames of the zone is longer
\* than a patience window of 0.5 s.
GapsLong(z) ==
    \A i, j \in 1..Len(samples) :
        (/\ 1 < i
         /\ i <= j
         /\ j < Len(samples)
         /\ Busy(z, i - 1)
         /\ Busy(z, j + 1)
         /\ \A k \in i..j : ~Busy(z, k)) => (2 * (j - i + 1) > fps)

\* C5: a zone whose activity spans are all shorter than the minimum duration,
\* each separated from the next by more than the patience window, has nothing
\* logged, however many such spans there are.
C5_ShortBurstsDiscarded ==
    pc = "done" =>
        \A z \in DOMAIN zone_stats : (SpansShort(z) /\ GapsLong(z)) => ~HasRow(z)

\* The squared distance between the centres of two boxes, in half pixels.
CentreDist2(a, b) ==
    (2 * a[1] + a[3] - 2 * b[1] - b[3]) * (2 * a[1] + a[3] - 2 * b[1] - b[3])
    + (2 * a[2] + a[4] - 2 * b[2] - b[4]) * (2 * a[2] + a[4] - 2 * b[2] - b[4])

\* C6 as stated: on a detection that has a detection before it, the stable
\* counter is incremented exactly when the Euclidean distance between the two
\* centres is below 5 pixels, and reset to zero otherwise.
C6_EuclideanCentre ==
    [][(DetectionStep /\ car_box' # None /\ last_car_pos # None) =>
        stable_frames' = IF CentreDist2(car_box', last_car_pos) < 100
                         THEN stable_frames + 1 ELSE 0]_vars

\* C6 amended: the counter is incremented exactly when the sum of the absolute
\* differences of the two boxes' top-left x and y is below 5, and reset to
\* zero otherwise.
C6_ManhattanCorner ==
    [][(DetectionStep /\ car_box' # None /\ last_car_pos # None) =>
        stable_frames' =
            IF (IF car_box'[1] >= last_car_pos[1]
                THEN car_box'[1] - last_car_pos[1] ELSE last_car_pos[1] - car_box'[1])
               + (IF car_box'[2] >= last_car_pos[2]
                  THEN car_box'[2] - last_car_pos[2] ELSE last_car_pos[2] - car_box'[2]) < 5
            THEN stable_frames + 1 ELSE 0]_vars

\* The counter was reset by a detection whose corner moved by (3, 3): 6 by
\* the sum of the differences, 4.24 between the centres.
C6_Witness ==
    /\ ~car_detected
    /\ prev_car_pos = CarA
    /\ car_box = CarB
    /\ last_car_pos = CarB
    /\ stable_frames = 0
    /\ frame_count >= 3

\* C7: the lock never happens while the stable counter is at or below
\* fps * 0.5, and happens at the first detection at which it exceeds it.
C7_DwellScalesWithFps ==
    fps > 0 =>
        /\ car_detected => 2 * stable_frames > fps
        /\ (~car_detected /\ car_box # None) => 2 * stable_frames <= fps

\* C8: a frame before the lock on which find_car returns None leaves the
\* stable counter, the last position, car_detected, zones and zone_stats
\* as they were.
C8_MissKeepsStability ==
    [][(DetectionStep /\ car_box' = None) =>
        /\ stable_frames' = stable_frames
        /\ last_car_pos' = last_car_pos
        /\ car_detected' = car_detected
        /\ zones' = zones
        /\ zone_stats' = zone_stats]_vars

\* A missed frame left the counter at 15, one stable detection from the lock.
C8_Witness ==
    /\ ~car_detected
    /\ car_box = None
    /\ stable_frames = 15
    /\ last_car_pos # None

\* C9: before the lock zones and zone_stats are empty and no zone is sampled;
\* when the frames end before any lock, process returns with an empty report.
C9_NeverFoundIsValid ==
    /\ [](~car_detected =>
            /\ zones = <<>>
            /\ zone_stats = <<>>
            /\ samples = <<>>
            /\ results = <<>>
            /\ (pc = "done" => report = <<>>))
    /\ [][(pc = "loop" /\ ~car_detected /\ frame_count' = frame_count /\ pc' # "loop") =>
            (pc' = "done" /\ report' = <<>> /\ exc' = "none")]_vars

\* A video long enough for a lock ended without one and process returned.
C9_Witness ==
    /\ pc = "done"
    /\ ~car_detected
    /\ frame_count > 16
    /\ report = <<>>

\* C10: for a zone of zero width or zero height check_overlap returns False,
\* whatever the detection box.
C10_ZeroAreaNeverBusy ==
    (ov_zone # None /\ (ov_zone[3] = 0 \/ ov_zone[4] = 0)) => ov_result = FALSE

\* A zone rectangle with no point inside the frame.
OutsideFrame(zb) ==
    \/ zb[1] >= width
    \/ zb[2] >= height
    \/ zb[1] + zb[3] <= 0
    \/ zb[2] + zb[4] <= 0

\* A person box that lies within the frame.
InFrame(pb) ==
    /\ 0 <= pb[1]
    /\ pb[1] <= pb[3]
    /\ pb[3] <= width
    /\ 0 <= pb[2]
    /\ pb[2] <= pb[4]
    /\ pb[4] <= height

\* C11: with every detection box inside the frame, a zone whose rectangle
\* lies entirely outside the frame is sampled False on every frame, counts no
\* busy frame and has no row in the report.
C11_OutOfBoundsZoneIdle ==
    (\A d \in Detections : \A i \in 1..Len(d) : InFrame(d[i])) =>
        \A z \in DOMAIN zones :
            OutsideFrame(zones[z]) =>
                /\ \A i \in 1..Len(samples) : ~Busy(z, i)
                /\ zone_stats[z].frames = 0
                /\ ~HasRow(z)

\* A finished run in which Inside_Front lies below the frame, a person box
\* that reaches the frame's bottom edge was detected under it, and another
\* zone is reported.
C11_Witness ==
    /\ pc = "done"
    /\ car_detected
    /\ OutsideFrame(zones["Inside_Front"])
    /\ results = <<PersonFuel, PersonWide>>
    /\ HasRow("Fueling")

\* The rectangle lies within the frame.
WithinFrame(zb) ==
    /\ 0 <= zb[1]
    /\ 0 <= zb[2]
    /\ zb[1] + zb[3] <= width
    /\ zb[2] + zb[4] <= height

\* C12: when the locked vehicle box is inside the frame, every zone rectangle
\* held in zones lies within the frame bounds.
C12_ZonesClamped ==
    (car_detected /\ WithinFrame(car_bbox)) =>
        \A z \in DOMAIN zones : WithinFrame(zones[z])

\* C13: on every analysed frame a zone (zx, zy, zw, zh) is sampled busy if
\* and only if some detection box (px1, py1, px2, py2) of that same frame has
\* px1 < zx + zw, px2 > zx, py1 < zy + zh and py2 > zy; the sample is a function
\* of that frame's boxes and the zone alone.
C13_SampleIsAABB ==
    (car_detected /\ samples # <<>>) =>
        \A z \in DOMAIN zones :
            Busy(z, Len(samples)) <=>
                \E i \in 1..Len(results) :
                    /\ results[i][1] < zones[z][1] + zones[z][3]
                    /\ results[i][3] > zones[z][1]
                    /\ results[i][2] < zones[z][2] + zones[z][4]
                    /\ results[i][4] > zones[z][2]

\* With the vehicle locked at CarB the person box's bottom edge y = 29 is the
\* top edge of Outside_Front: the boxes touch and no zone is sampled busy,
\* on a frame that follows one on which a zone was busy.
C13_Witness ==
    /\ car_bbox = CarB
    /\ results = <<PersonFront>>
    /\ Len(samples) >= 2
    /\ Last(samples).busy = {}
    /\ samples[Len(samples) - 1].busy # {}

\* The report's row of a zone.
RowOf(z) == report[CHOOSE i \in 1..Len(report) : report[i].Task = z]

\* The frame indices at which the zone went from not busy to busy, over the
\* first n analysed frames.
RECURSIVE StartsOf(_, _)
StartsOf(z, n) ==
    IF n = 0 THEN <<>>
    ELSE IF Busy(z, n) /\ (n = 1 \/ ~Busy(z, n - 1))
         THEN Append(StartsOf(z, n - 1), samples[n].t)
         ELSE StartsOf(z, n - 1)

\* C14 as stated: for every reported zone Total Duration is exactly the number
\* of busy frames over fps and First Activity exactly the first busy frame's
\* index over fps (values in hundredths), and the start times are those of the
\* Idle-to-Active transitions.
C14_AggregateExact ==
    pc = "done" =>
        \A z \in DOMAIN zones :
            HasRow(z) =>
                /\ RowOf(z)["Total Duration"] * fps = 100 * BusyFrames(z)
                /\ RowOf(z)["First Activity"] * fps = 100 * StartsOf(z, Len(samples))[1]
                /\ zone_stats[z].starts = StartsOf(z, Len(samples))

\* C14, amended: for every reported zone Total Duration is the number of busy
\* frames over fps rounded to two decimals (each frame counted once), First
\* Activity is the first busy frame's index over fps rounded to two decimals,
\* and a start time is recorded exactly on each Idle-to-Active transition.
C14_AggregateRounded ==
    pc = "done" =>
        \A z \in DOMAIN zones :
            HasRow(z) =>
                /\ zone_stats[z].frames = BusyFrames(z)
                /\ 2 * Abs(RowOf(z)["Total Duration"] * fps - 100 * BusyFrames(z)) <= fps
                /\ 2 * Abs(RowOf(z)["First Activity"] * fps
                            - 100 * StartsOf(z, Len(samples))[1]) <= fps
                /\ zone_stats[z].starts = StartsOf(z, Len(samples))

\* A reported zone with two separate busy spells, one of them on frames with
\* two overlapping boxes, whose duration is not a whole number of hundredths.
C14_Witness ==
    /\ pc = "done"
    /\ HasRow("Fueling")
    /\ Len(zone_stats["Fueling"].starts) = 2
    /\ results = <<PersonFuel, PersonWide>>
    /\ RowOf("Fueling")["Total Duration"] * fps # 100 * BusyFrames("Fueling")

\* C15: every row of a report carries the Start, Finish and Duration fields
\* that the consuming UI reads, with Duration = Finish - Start > 0.
C15_RowsHaveStartFinishDuration ==
    pc = "done" =>
        \A i \in 1..Len(report) :
            /\ {"Start", "Finish", "Duration"} \subseteq DOMAIN report[i]
            /\ report[i].Duration = report[i].Finish - report[i].Start
            /\ report[i].Duration > 0

\* C16: a run whose first read returns no frame does not complete normally.
C16_EmptyInputRejected == pc = "done" => frame_count > 0

\* C17: with a frame rate that is not positive or a total frame count of 0
\* no frame is processed and no division by zero is raised during the run.
C17_InvalidConfigRejected ==
    (fps <= 0 \/ total_frames = 0) => (frame_count = 0 /\ exc = "none")

\* C18: in the 300-frame run at 30 fps with the vehicle at one position from
\* frame 0 and only the fuel zone busy, on the 60 frames from t = 3 s, the
\* vehicle is locked once frame 16 is processed, no fault is raised, and the
\* report is exactly one row, for Fueling, with First Activity 3.00 s and
\* Total Duration 2.00 s (values in hundredths).
C18_EndToEnd ==
    /\ frame_count > LockFrames + 1 => car_detected
    /\ pc # "error"
    /\ pc = "done" =>
          /\ Len(report) = 1
          /\ report[1].Task = "Fueling"
          /\ report[1]["First Activity"] = 300
          /\ report[1]["Total Duration"] = 200

C18_Witness ==
    /\ pc = "done"
    /\ frame_count = Scenario.frames
    /\ car_detected
    /\ BusyFrames("Fueling") = Scenario.busy_len
    /\ Len(report) = 1
    /\ report[1].Task = "Fueling"

\* The statistics of a zone as its own samples alone determine them.  With
\* fps = 0 the zone's first busy frame counts and then raises, so a zone is
\* never Active and never has a start.
OwnState(z) ==
    IF fps = 0
    THEN [frames |-> BusyFrames(z), active |-> FALSE, starts |-> <<>>]
    ELSE [frames |-> BusyFrames(z),
          active |-> samples # <<>> /\ Busy(z, Len(samples)),
          starts |-> StartsOf(z, Len(samples))]

\* C19: after any frame sequence the frames counter, the active flag and the
\* start list of every zone are a function of that zone's own busy samples
\* alone, whatever the other zones were sampled.
C19_ZonesIndependent ==
    car_detected => \A z \in DOMAIN zones : zone_stats[z] = OwnState(z)

\* C20: in every state the key set of zone_stats is that of zones, and for
\* every zone 0 <= len(starts) <= frames, frames > 0 exactly when starts is
\* not empty, and active implies frames > 0; every reported zone has a first
\* start.
C20_Bookkeeping ==
    /\ DOMAIN zone_stats = DOMAIN zones
    /\ \A z \in DOMAIN zone_stats :
          /\ Len(zone_stats[z].starts) <= zone_stats[z].frames
          /\ zone_stats[z].frames > 0 <=> zone_stats[z].starts # <<>>
          /\ zone_stats[z].active => zone_stats[z].frames > 0
    /\ \A z \in DOMAIN zones : HasRow(z) => zone_stats[z].starts # <<>>

=============================================================================
